---- MODULE Spec2Model ----
(***************************************************************************)
(* A model of rojo's Git filter (src/git.rs) and of the serve command that *)
(* builds it (src/cli/serve.rs).                                           *)
(*                                                                         *)
(* A file name is a sequence of tokens in which "." is a token of its own  *)
(* ("a.lua" is <<"a", ".", "lua">>), a path is the sequence of its         *)
(* components from the filesystem root (the root is <<>>), and a line of   *)
(* git's output is a sequence of tokens in which "/" separates components. *)
(***************************************************************************)
EXTENDS Integers, Sequences, FiniteSets, TLC

VARIABLES
    fs,                          \* the mutable files that exist now (real paths)
    project_path,                \* ServeCommand.project after resolve_path
    git_since,                   \* ServeCommand.git_since: a reference or None
    repo_root,                   \* GitFilter.repo_root (the root before it is resolved)
    git_changed_paths,           \* GitFilter.git_changed_paths (ChangeSet)
    session_acknowledged_paths,  \* GitFilter.session_acknowledged_paths (AcknowledgedSet)
    pc,                          \* where each thread stands
    git_changed,                 \* refresh's local git_changed, per thread
    acknowledged,                \* force_acknowledge's local acknowledged, per thread
    arg,                         \* the path argument of the call in progress, per thread
    ret,                         \* what the last call returned, until another call starts
    outs,                        \* the stdouts the refresh in progress has read, per thread
    tainted,                     \* the filesystem changed under the refresh in progress
    last_ok,                     \* what the last undisturbed successful refresh read, and
                                 \* whether the one before it had read the same
    calls,                       \* operations the worker threads have started
    cache_lock,                  \* the RwLock of git_changed_paths: who holds it
    session_lock                 \* the RwLock of session_acknowledged_paths: who holds it

vars == <<fs, project_path, git_since, repo_root, git_changed_paths,
          session_acknowledged_paths, pc, git_changed, acknowledged, arg, ret,
          outs, tainted, last_ok, calls,
          cache_lock, session_lock>>

\* Each critical section of the code is one step below, so no lock is held
\* between two steps; the steps of the locks themselves are further down.
locks == <<cache_lock, session_lock>>

None == "None"

\* The worker threads start at most this many operations.
MaxCalls == 2

\* File names given to strip_lua_extension: at most this many pieces (words
\* and dots) before the ending.
MaxStemLen == 2

Main == "main"
Workers == {"w1", "w2"}
Threads == {Main} \cup Workers

-----------------------------------------------------------------------------
(* Paths and the filesystem.                                               *)

Root == <<>>

Name(base, ext) == <<base>> \o ext

LUA == <<".", "lua">>
LUAU == <<".", "luau">>
META_JSON == <<".", "meta", ".", "json">>

\* Real directories; /w is a symbolic link to /r, so every entry of the
\* repository has a second, non-canonical spelling.
DirR == << <<"r">> >>
DirSrc == << <<"r">>, <<"src">> >>
LinkW == << <<"w">> >>
AliasSrc == << <<"w">>, <<"src">> >>

\* A directory of the repository beside src, and a symbolic link to it inside
\* src: /r/src/pkg is /r/pkg.
DirPkg == << <<"r">>, <<"pkg">> >>
LinkPkg == << <<"r">>, <<"src">>, <<"pkg">> >>

Dirs == {Root, DirR, DirSrc, DirPkg}

Symlinks == (LinkW :> DirR) @@ (LinkPkg :> DirPkg)

ALua == Name("a", LUA)
BLua == Name("b", LUA)
CLua == Name("c", LUA)
MLua == Name("m", LUA)
InitServerLuau == Name("init", <<".", "server">> \o LUAU)
AMeta == Name("a", META_JSON)
BMeta == Name("b", META_JSON)
InitMeta == Name("init", META_JSON)
DefaultProjectJson == <<"default", ".", "project", ".", "json">>
DefaultProjectJsonc == <<"default", ".", "project", ".", "jsonc">>

StaticFiles == {Append(DirR, DefaultProjectJson), Append(DirSrc, AMeta),
                Append(DirSrc, BLua), Append(DirSrc, CLua),
                Append(DirSrc, InitServerLuau), Append(DirPkg, MLua)}

\* The files that come and go while the session runs.
MutableFiles == {Append(DirSrc, ALua)}

Files(f) == StaticFiles \cup f

\* Path::parent: None for the root.
HasParent(p) == Len(p) > 0

Parent(p) == SubSeq(p, 1, Len(p) - 1)

\* Path::file_name
FileName(p) == p[Len(p)]

\* Path::starts_with: `base` is a component-wise prefix of `p`.
StartsWith(p, base) == Len(base) <= Len(p) /\ SubSeq(p, 1, Len(base)) = base

\* Path::canonicalize: resolves the symbolic links on the way and fails when
\* the entry does not exist.
RECURSIVE Resolve(_, _, _)
Resolve(f, done, rest) ==
    IF rest = <<>>
    THEN [ok |-> TRUE, path |-> done]
    ELSE LET next == Append(done, Head(rest))
         IN  IF next \in DOMAIN Symlinks
             THEN Resolve(f, Symlinks[next], Tail(rest))
             ELSE IF next \in Dirs
             THEN Resolve(f, next, Tail(rest))
             ELSE IF next \in Files(f) /\ Tail(rest) = <<>>
             THEN [ok |-> TRUE, path |-> next]
             ELSE [ok |-> FALSE, path |-> done \o rest]

Canonicalize(f, p) == Resolve(f, Root, p)

\* path.canonicalize().unwrap_or_else(|_| path.to_path_buf())
CanonicalOrRaw(f, p) == LET c == Canonicalize(f, p) IN IF c.ok THEN c.path ELSE p

\* Path::is_dir follows symbolic links.
IsDir(f, p) == LET c == Canonicalize(f, p) IN c.ok /\ c.path \in Dirs

-----------------------------------------------------------------------------
(* The ancestry closure: acknowledge_path and what it calls.               *)

\* str::strip_suffix: the name without `ext`, when it ends with it.
EndsWith(name, ext) ==
    Len(ext) <= Len(name) /\ SubSeq(name, Len(name) - Len(ext) + 1, Len(name)) = ext

StripSuffix(name, ext) == SubSeq(name, 1, Len(name) - Len(ext))

\* A variant of the table with the one-segment suffixes first.
EXTENSIONS_single_first == <<
    <<".", "luau">>,
    <<".", "lua">>,
    <<".", "server", ".", "luau">>,
    <<".", "server", ".", "lua">>,
    <<".", "client", ".", "luau">>,
    <<".", "client", ".", "lua">> >>

EXTENSIONS == <<
    <<".", "server", ".", "luau">>,
    <<".", "server", ".", "lua">>,
    <<".", "client", ".", "luau">>,
    <<".", "client", ".", "lua">>,
    <<".", "luau">>,
    <<".", "lua">> >>

\* str::rsplit_once('.'): the text before the last dot, the whole name when
\* it has no dot.
RECURSIVE RSplitOnceDot(_, _)
RSplitOnceDot(name, i) ==
    IF i = 0 THEN name
    ELSE IF name[i] = "." THEN SubSeq(name, 1, i - 1)
    ELSE RSplitOnceDot(name, i - 1)

\* The loop over EXTENSIONS, from entry i on: the first match returns.
RECURSIVE StripFrom(_, _)
StripFrom(file_name, i) ==
    IF i > Len(EXTENSIONS) THEN RSplitOnceDot(file_name, Len(file_name))
    ELSE IF EndsWith(file_name, EXTENSIONS[i]) THEN StripSuffix(file_name, EXTENSIONS[i])
    ELSE StripFrom(file_name, i + 1)

strip_lua_extension(file_name) == StripFrom(file_name, 1)

\* if let Ok(canonical) = p.canonicalize() { insert(canonical) } else { insert(p) }
InsertCanonicalOrRaw(f, p, set) == set \cup {CanonicalOrRaw(f, p)}

\* file_name.starts_with("init.")
IsInitFile(file_name) ==
    Len(file_name) >= 2 /\ file_name[1] = "init" /\ file_name[2] = "."

acknowledge_meta_files(f, path, set) ==
    IF ~HasParent(path) THEN set
    ELSE LET file_name == FileName(path)
             parent == Parent(path)
             base_name == strip_lua_extension(file_name)
             meta_path == Append(parent, base_name \o META_JSON)
             with_meta == InsertCanonicalOrRaw(f, meta_path, set)
         IN  IF IsInitFile(file_name)
             THEN InsertCanonicalOrRaw(f, Append(parent, InitMeta), with_meta)
             ELSE with_meta

\* The loop `while let Some(parent) = current`: every proper prefix of the
\* path, the root included.
RECURSIVE AncestorChain(_)
AncestorChain(p) ==
    IF ~HasParent(p) THEN {} ELSE {Parent(p)} \cup AncestorChain(Parent(p))

acknowledge_path(f, raw, set) ==
    LET path == CanonicalOrRaw(f, raw)
    IN  acknowledge_meta_files(f, path, set \cup {path} \cup AncestorChain(path))

-----------------------------------------------------------------------------
(* The output of a git query, line by line.                                *)

\* The components of a relative path: its tokens between the "/"s, empty
\* components dropped (Path::components).
RECURSIVE SplitComponents(_, _)
SplitComponents(line, cur) ==
    IF line = <<>> THEN (IF cur = <<>> THEN <<>> ELSE <<cur>>)
    ELSE IF Head(line) = "/"
    THEN (IF cur = <<>> THEN <<>> ELSE <<cur>>) \o SplitComponents(Tail(line), <<>>)
    ELSE SplitComponents(Tail(line), Append(cur, Head(line)))

\* self.repo_root.join(line)
Join(base, line) == base \o SplitComponents(line, <<>>)

\* A variant in which refresh inserts the reported paths alone.
RECURSIVE AcknowledgeLinesSelfOnly(_, _, _, _)
AcknowledgeLinesSelfOnly(f, root, lines, set) ==
    IF lines = <<>> THEN set
    ELSE LET line == Head(lines)
             next == IF line # <<>> THEN set \cup {CanonicalOrRaw(f, Join(root, line))}
                     ELSE set
         IN  AcknowledgeLinesSelfOnly(f, root, Tail(lines), next)

\* str::trim on a line in pieces: the blanks at both ends removed.
RECURSIVE TrimStart(_)
TrimStart(line) ==
    IF line # <<>> /\ Head(line) = " " THEN TrimStart(Tail(line)) ELSE line

RECURSIVE TrimEnd(_)
TrimEnd(line) ==
    IF line # <<>> /\ line[Len(line)] = " " THEN TrimEnd(SubSeq(line, 1, Len(line) - 1))
    ELSE line

Trim(line) == TrimEnd(TrimStart(line))

\* A variant in which refresh trims every line before it looks at it.
RECURSIVE AcknowledgeLinesTrimmed(_, _, _, _)
AcknowledgeLinesTrimmed(f, root, lines, set) ==
    IF lines = <<>> THEN set
    ELSE LET line == Trim(Head(lines))
             next == IF line # <<>> THEN acknowledge_path(f, Join(root, line), set)
                     ELSE set
         IN  AcknowledgeLinesTrimmed(f, root, Tail(lines), next)

\* for line in stdout.lines() { if !line.is_empty() { acknowledge_path(join) } }
RECURSIVE AcknowledgeLines(_, _, _, _)
AcknowledgeLines(f, root, lines, set) ==
    IF lines = <<>> THEN set
    ELSE LET line == Head(lines)
             next == IF line # <<>> THEN acknowledge_path(f, Join(root, line), set)
                     ELSE set
         IN  AcknowledgeLines(f, root, Tail(lines), next)

-----------------------------------------------------------------------------
(* is_acknowledged and the anchor registration.                            *)

\* A variant whose scan has the two paths of starts_with the wrong way round.
is_acknowledged_scan_reversed(f, session, path) ==
    LET canonical == CanonicalOrRaw(f, path)
    IN  IF canonical \in session THEN TRUE
        ELSE IF path \in session THEN TRUE
        ELSE \E a \in session : StartsWith(canonical, a) \/ StartsWith(path, a)

\* The body of is_acknowledged under the read lock: the canonical form, the
\* raw form, then the scan for an acknowledged descendant.
is_acknowledged(f, session, path) ==
    LET canonical == CanonicalOrRaw(f, path)
    IN  IF canonical \in session THEN TRUE
        ELSE IF path \in session THEN TRUE
        ELSE \E a \in session : StartsWith(a, canonical) \/ StartsWith(a, path)

\* &self as a method sees it: the two sets of the filter.
Filter(cache, session) ==
    [git_changed_paths |-> cache, session_acknowledged_paths |-> session]

\* A variant that also answers true for a path of the cache.
is_acknowledged_or_cached(self, f, path) ==
    \/ CanonicalOrRaw(f, path) \in self.git_changed_paths
    \/ is_acknowledged(f, self.session_acknowledged_paths, path)

\* is_acknowledged(&self, path): of the filter it reads
\* session_acknowledged_paths, under its read lock, and nothing else.
is_acknowledged_method(self, f, path) ==
    is_acknowledged(f, self.session_acknowledged_paths, path)

ProjectFileNames == <<DefaultProjectJson, DefaultProjectJsonc>>

\* The body of acknowledge_project_path under the write lock.
acknowledge_project_path(f, project, session) ==
    LET canonical == CanonicalOrRaw(f, project)
        s1 == session \cup {canonical} \cup AncestorChain(canonical)
        s2 == IF IsDir(f, project)
              THEN s1 \cup {CanonicalOrRaw(f, Append(project, ProjectFileNames[i])) :
                              i \in 1..Len(ProjectFileNames)}
              ELSE s1
    IN  IF HasParent(project)
        THEN s2 \cup {CanonicalOrRaw(f, Parent(project))}
        ELSE s2

-----------------------------------------------------------------------------
(* What the environment can do: the command line, git, the filesystem.     *)

\* The project path the filter is given: the repository through the link /w
\* (a directory, served with its default project file), or one script under
\* it (a file, which may be missing when the filter is built).
AnchorPaths == {LinkW, Append(AliasSrc, ALua)}

\* `git rev-parse --show-toplevel` names the repository as the user reached it.
RepoRoots == {LinkW}

LineA == <<"src", "/">> \o ALua
LineB == <<"src", "/">> \o BLua
LineInit == <<"src", "/">> \o InitServerLuau
EmptyLine == <<>>

\* Command::output(): the process could not be started, or it ran and exited
\* with a status and its stdout, cut into lines.
SpawnError == [spawned |-> FALSE, success |-> FALSE, stdout |-> <<>>]
ExitNonZero == [spawned |-> TRUE, success |-> FALSE, stdout |-> <<>>]
ExitZero(lines) == [spawned |-> TRUE, success |-> TRUE, stdout |-> lines]

\* What each query can answer: a.lua is a tracked file that is edited, staged,
\* reverted and deleted; b.lua and init.server.luau are new files.
DiffOutcomes == {SpawnError, ExitNonZero, ExitZero(<<>>), ExitZero(<<LineA, EmptyLine>>)}
UntrackedOutcomes == {SpawnError, ExitNonZero, ExitZero(<<LineB, LineInit>>)}
StagedOutcomes == {SpawnError, ExitNonZero, ExitZero(<<>>), ExitZero(<<LineA>>)}
RepoRootOutcomes == {SpawnError, ExitNonZero} \cup {ExitZero(<<r>>) : r \in RepoRoots}

\* The paths callers pass to force_acknowledge and to is_acknowledged.
ForcePaths == {Append(AliasSrc, ALua)}
QueryPaths == {Append(AliasSrc, ALua), Append(AliasSrc, CLua)}

-----------------------------------------------------------------------------
(* The state machine.                                                      *)

Returned(op, path, val) == [op |-> op, path |-> path, val |-> val]
NoRet == Returned("none", Root, "none")
RefreshRet(v) == Returned("refresh", Root, v)
NoRefresh == [valid |-> FALSE, outs |-> <<>>, repeated |-> FALSE]

\* RwLock::new: no writer, no reader.
FreeLock == [writer |-> None, readers |-> {}]

\* Where the filter is built from: ServeCommand::run, which asks git for the
\* root from the project path, or a caller of the public GitFilter::new that
\* passes a root of its own.
Entries == {"run", "new"}

Init ==
    /\ fs \in SUBSET MutableFiles
    /\ project_path \in AnchorPaths
    /\ git_since \in {None, "HEAD"}
    /\ \E entry \in Entries :
         /\ entry = "new" => git_since # None
         /\ repo_root = (IF entry = "new" THEN LinkW ELSE Root)
         /\ pc = [t \in Threads |-> IF t = Main THEN entry ELSE "idle"]
    /\ git_changed_paths = {}
    /\ session_acknowledged_paths = {}
    /\ git_changed = [t \in Threads |-> {}]
    /\ acknowledged = [t \in Threads |-> {}]
    /\ arg = [t \in Threads |-> Root]
    /\ ret = NoRet
    /\ outs = [t \in Threads |-> <<>>]
    /\ tainted = [t \in Threads |-> FALSE]
    /\ last_ok = NoRefresh
    /\ calls = 0
    /\ cache_lock = FreeLock
    /\ session_lock = FreeLock

\* The filter is built and shared with the threads of the session and of the
\* server. LiveServer::new and start neither read nor write the filter, so
\* the calls of those threads are taken from `serving` on.
Shared == git_since # None /\ pc[Main] = "serving"

\* A worker thread may start a call. The threads are interchangeable, so w2
\* takes a call only while w1 is busy: at most two calls are in progress.
CanCall(t) ==
    /\ t \in Workers /\ pc[t] = "idle" /\ Shared /\ calls < MaxCalls
    /\ t = "w2" => pc["w1"] # "idle"

InRefresh(t) == pc[t] \in {"untracked", "staged", "write_cache", "merge"}

\* A variant in which the serve command goes on whatever the call returned.
ReturnToIgnoringError(t, r) ==
    IF t # Main THEN "idle" ELSE "create_session"

\* Where a call goes back to: a worker is idle again; the serve command goes
\* on after GitFilter::new, or leaves with the error (the `?`s of run).
ReturnTo(t, r) ==
    IF t # Main THEN "idle"
    ELSE IF r.val = "Ok" THEN "create_session" ELSE "exit_err"

\* The call of thread t returns r: its locals are dropped.
Return(t, r) ==
    /\ pc' = [pc EXCEPT ![t] = ReturnTo(t, r)]
    /\ ret' = r
    /\ git_changed' = [git_changed EXCEPT ![t] = {}]
    /\ acknowledged' = [acknowledged EXCEPT ![t] = {}]
    /\ arg' = [arg EXCEPT ![t] = Root]
    /\ outs' = [outs EXCEPT ![t] = <<>>]
    /\ tainted' = [tainted EXCEPT ![t] = FALSE]

\* The call of thread t moves on to `label` with its local git_changed set.
Goto(t, label, changed, outcome) ==
    /\ pc' = [pc EXCEPT ![t] = label]
    /\ git_changed' = [git_changed EXCEPT ![t] = changed]
    /\ outs' = [outs EXCEPT ![t] = Append(outs[t], outcome)]
    /\ ret' = IF label = "untracked" THEN NoRet ELSE ret
    /\ UNCHANGED <<acknowledged, arg, tainted>>

\* ServeCommand::run without --git-since: no filter.
RunWithoutFilter ==
    /\ pc[Main] = "run"
    /\ git_since = None
    /\ pc' = [pc EXCEPT ![Main] = "create_session"]
    /\ UNCHANGED <<fs, project_path, git_since, repo_root, git_changed_paths,
                   session_acknowledged_paths, git_changed, acknowledged, arg,
                   ret, outs, tainted, last_ok, calls>>
    /\ UNCHANGED locks

\* GitFilter::find_repo_root, called by run. git is started in the project
\* path (current_dir), which fails unless that is a directory.
FindRepoRoot ==
    /\ pc[Main] = "run"
    /\ git_since # None
    /\ \E o \in (IF IsDir(fs, project_path) THEN RepoRootOutcomes ELSE {SpawnError}) :
         IF ~o.spawned
         THEN /\ Return(Main, Returned("find_repo_root", Root,
                                        "Failed to execute git rev-parse"))
              /\ UNCHANGED repo_root
         ELSE IF ~o.success
         THEN /\ Return(Main, Returned("find_repo_root", Root,
                                        "Failed to find Git repository root"))
              /\ UNCHANGED repo_root
         ELSE /\ repo_root' = o.stdout[1]
              /\ pc' = [pc EXCEPT ![Main] = "new"]
              /\ UNCHANGED <<ret, git_changed, acknowledged, arg, outs, tainted>>
    /\ UNCHANGED <<fs, project_path, git_since, git_changed_paths,
                   session_acknowledged_paths, last_ok, calls>>
    /\ UNCHANGED locks

\* GitFilter::new up to its refresh: the two empty sets, then the anchor.
NewFilter ==
    /\ pc[Main] = "new"
    /\ git_changed_paths' = {}
    /\ session_acknowledged_paths' = acknowledge_project_path(fs, project_path, {})
    /\ pc' = [pc EXCEPT ![Main] = "diff"]
    /\ UNCHANGED <<fs, project_path, git_since, repo_root, git_changed, acknowledged,
                   arg, ret, outs, tainted, last_ok, calls>>
    /\ UNCHANGED locks

\* A variant that inserts into the session set while it collects.
CollectIntoSession(changed) ==
    /\ session_acknowledged_paths' = session_acknowledged_paths \cup changed
    /\ UNCHANGED git_changed_paths

\* A query of refresh collects into the local git_changed only: the two
\* shared sets are not touched before all three queries are done.
CollectLocally(changed) ==
    UNCHANGED <<git_changed_paths, session_acknowledged_paths>>

\* *cache = git_changed.clone()
WriteCache(cache, changed) == changed

\* Variants of the merge: one replaces the session set, one merges nothing,
\* one merges the shared cache instead of the local set.
MergeSessionReplaced(session, changed) == changed

MergeSessionDropped(session, changed) == session

MergeSessionFromCache(session, changed) == session \cup git_changed_paths

\* for path in git_changed { session.insert(path) }
MergeSession(session, changed) == session \cup changed

\* refresh, from its start to the end of the diff query. A worker starts the
\* call here; the serve command is here after the anchor registration.
RefreshDiff(t) ==
    /\ \/ CanCall(t) /\ calls' = calls + 1
       \/ t = Main /\ pc[t] = "diff" /\ calls' = calls
    /\ \E o \in DiffOutcomes :
         IF ~o.spawned
         THEN Return(t, RefreshRet("Failed to execute git diff")) /\ CollectLocally({})
         ELSE IF ~o.success
         THEN Return(t, RefreshRet("git diff failed")) /\ CollectLocally({})
         ELSE LET changed == AcknowledgeLines(fs, repo_root, o.stdout, {})
              IN  Goto(t, "untracked", changed, o) /\ CollectLocally(changed)
    /\ UNCHANGED <<fs, project_path, git_since, repo_root, last_ok>>
    /\ UNCHANGED locks

\* refresh: the untracked listing.
RefreshUntracked(t) ==
    /\ pc[t] = "untracked"
    /\ \E o \in UntrackedOutcomes :
         IF ~o.spawned
         THEN Return(t, RefreshRet("Failed to execute git ls-files")) /\ CollectLocally({})
         ELSE IF ~o.success
         THEN Return(t, RefreshRet("git ls-files failed")) /\ CollectLocally({})
         ELSE LET changed == AcknowledgeLines(fs, repo_root, o.stdout, git_changed[t])
              IN  Goto(t, "staged", changed, o) /\ CollectLocally(changed)
    /\ UNCHANGED <<fs, project_path, git_since, repo_root, last_ok, calls>>
    /\ UNCHANGED locks

\* refresh: the staged query. Only a process that could not be started is an
\* error here; a non-zero exit is skipped.
RefreshStaged(t) ==
    /\ pc[t] = "staged"
    /\ \E o \in StagedOutcomes :
         IF ~o.spawned
         THEN Return(t, RefreshRet("Failed to execute git diff --cached"))
              /\ CollectLocally({})
         ELSE LET changed == IF o.success
                             THEN AcknowledgeLines(fs, repo_root, o.stdout, git_changed[t])
                             ELSE git_changed[t]
              IN  Goto(t, "write_cache", changed, o) /\ CollectLocally(changed)
    /\ UNCHANGED <<fs, project_path, git_since, repo_root, last_ok, calls>>
    /\ UNCHANGED locks

\* refresh: the block that replaces the cache, under its write lock.
RefreshWriteCache(t) ==
    /\ pc[t] = "write_cache"
    /\ git_changed_paths' = WriteCache(git_changed_paths, git_changed[t])
    /\ pc' = [pc EXCEPT ![t] = "merge"]
    /\ UNCHANGED <<fs, project_path, git_since, repo_root, session_acknowledged_paths,
                   git_changed, acknowledged, arg, ret, outs, tainted, last_ok, calls>>
    /\ UNCHANGED locks

\* refresh: the block that merges into the session set, under its write
\* lock, and the return.
RefreshMerge(t) ==
    /\ pc[t] = "merge"
    /\ session_acknowledged_paths' =
           MergeSession(session_acknowledged_paths, git_changed[t])
    /\ Return(t, RefreshRet("Ok"))
    /\ last_ok' = IF tainted[t] THEN NoRefresh
                  ELSE [valid |-> TRUE, outs |-> outs[t],
                        repeated |-> last_ok.valid /\ last_ok.outs = outs[t]]
    /\ UNCHANGED <<fs, project_path, git_since, repo_root, git_changed_paths, calls>>
    /\ UNCHANGED locks

\* force_acknowledge: the closure, computed into the local set.
ForceAcknowledge(t) ==
    /\ CanCall(t)
    /\ calls' = calls + 1
    /\ \E path \in ForcePaths :
         /\ arg' = [arg EXCEPT ![t] = path]
         /\ acknowledged' = [acknowledged EXCEPT ![t] = acknowledge_path(fs, path, {})]
    /\ pc' = [pc EXCEPT ![t] = "force_merge"]
    /\ ret' = NoRet
    /\ UNCHANGED <<fs, project_path, git_since, repo_root, git_changed_paths,
                   session_acknowledged_paths, git_changed, outs, tainted,
                   last_ok>>
    /\ UNCHANGED locks

\* force_acknowledge: the merge under the session set's write lock.
ForceMerge(t) ==
    /\ pc[t] = "force_merge"
    /\ session_acknowledged_paths' =
           MergeSession(session_acknowledged_paths, acknowledged[t])
    /\ Return(t, Returned("force_acknowledge", arg[t], "()"))
    /\ last_ok' = NoRefresh
    /\ UNCHANGED <<fs, project_path, git_since, repo_root, git_changed_paths, calls>>
    /\ UNCHANGED locks

\* A variant that remembers the path it has answered true for.
IsAcknowledgedRemembering(t) ==
    /\ CanCall(t)
    /\ calls' = calls + 1
    /\ \E path \in QueryPaths :
         LET answer == is_acknowledged(fs, session_acknowledged_paths, path)
         IN  /\ Return(t, Returned("is_acknowledged", path,
                                   IF answer THEN "true" ELSE "false"))
             /\ session_acknowledged_paths' =
                    IF answer THEN session_acknowledged_paths \cup {path}
                    ELSE session_acknowledged_paths
    /\ UNCHANGED <<fs, project_path, git_since, repo_root, git_changed_paths, last_ok>>
    /\ UNCHANGED locks

\* is_acknowledged: one read under the session set's read lock.
IsAcknowledged(t) ==
    /\ CanCall(t)
    /\ calls' = calls + 1
    /\ \E path \in QueryPaths :
         Return(t, Returned("is_acknowledged", path,
                            IF is_acknowledged_method(
                                   Filter(git_changed_paths, session_acknowledged_paths),
                                   fs, path)
                            THEN "true" ELSE "false"))
    /\ UNCHANGED <<fs, project_path, git_since, repo_root, git_changed_paths,
                   session_acknowledged_paths, last_ok>>
    /\ UNCHANGED locks

\* ServeSession::new receives the filter (or none).
CreateSession ==
    /\ pc[Main] = "create_session"
    /\ pc' = [pc EXCEPT ![Main] = "live_server"]
    /\ UNCHANGED <<fs, project_path, git_since, repo_root, git_changed_paths,
                   session_acknowledged_paths, git_changed, acknowledged, arg,
                   ret, outs, tainted, last_ok, calls>>
    /\ UNCHANGED locks

\* LiveServer::new(session) and server.start(..), which serves from then on.
StartServer ==
    /\ pc[Main] = "live_server"
    /\ pc' = [pc EXCEPT ![Main] = "serving"]
    /\ UNCHANGED <<fs, project_path, git_since, repo_root, git_changed_paths,
                   session_acknowledged_paths, git_changed, acknowledged, arg,
                   ret, outs, tainted, last_ok, calls>>
    /\ UNCHANGED locks

\* The filesystem changes under the program: the refreshes in progress have
\* read the old state.
FsChanged(f) ==
    /\ fs' = f
    /\ tainted' = [t \in Threads |-> tainted[t] \/ InRefresh(t)]
    /\ last_ok' = NoRefresh
    /\ UNCHANGED <<project_path, git_since, repo_root, git_changed_paths,
                   session_acknowledged_paths, pc, git_changed, acknowledged, arg,
                   ret, outs, calls>>
    /\ UNCHANGED locks

CreateFile == \E p \in MutableFiles \ fs : FsChanged(fs \cup {p})

DeleteFile == \E p \in fs : FsChanged(fs \ {p})

Next ==
    \/ RunWithoutFilter
    \/ FindRepoRoot
    \/ NewFilter
    \/ \E t \in Threads : RefreshDiff(t)
    \/ \E t \in Threads : RefreshUntracked(t)
    \/ \E t \in Threads : RefreshStaged(t)
    \/ \E t \in Threads : RefreshWriteCache(t)
    \/ \E t \in Threads : RefreshMerge(t)
    \/ \E t \in Workers : ForceAcknowledge(t)
    \/ \E t \in Workers : ForceMerge(t)
    \/ \E t \in Workers : IsAcknowledged(t)
    \/ CreateSession
    \/ StartServer
    \/ CreateFile
    \/ DeleteFile

Spec == Init /\ [][Next]_vars

\* ---------------------------------------------------------------------------
\* The locks, step by step. The two sets are RwLocks; above, a block under a
\* lock is one step. Here the acquisition is a step of its own, which waits
\* until the lock can be taken, and the guard is dropped at the end of the
\* block. The queries of refresh are the steps above: they take no lock.

\* RwLock::write returns once there is no writer and no reader.
CanWrite(lock) == lock.writer = None /\ lock.readers = {}

\* RwLock::read returns once there is no writer.
CanRead(lock) == lock.writer = None

LockWrite(lock, t) == [lock EXCEPT !.writer = t]

LockRead(lock, t) == [lock EXCEPT !.readers = @ \cup {t}]

\* A variant in which the write guard outlives its block.
UnlockWriteKept(lock, t) == lock

\* The write guard is dropped at the end of its block.
UnlockWrite(lock, t) == [lock EXCEPT !.writer = None]

\* The read guard is dropped when is_acknowledged returns.
UnlockRead(lock, t) == [lock EXCEPT !.readers = @ \ {t}]

Holds(lock, t) == lock.writer = t \/ t \in lock.readers

\* The thread moves to `label`; nothing else of the call changes.
Step(t, label) ==
    /\ pc' = [pc EXCEPT ![t] = label]
    /\ UNCHANGED <<fs, project_path, git_since, repo_root, git_changed, acknowledged,
                   arg, ret, outs, tainted, last_ok, calls>>

\* GitFilter::new: the struct with its two empty sets.
NewStruct ==
    /\ pc[Main] = "new"
    /\ git_changed_paths' = {}
    /\ session_acknowledged_paths' = {}
    /\ Step(Main, "register")
    /\ UNCHANGED locks

\* acknowledge_project_path: self.session_acknowledged_paths.write()
RegisterLock ==
    /\ pc[Main] = "register"
    /\ CanWrite(session_lock)
    /\ session_lock' = LockWrite(session_lock, Main)
    /\ Step(Main, "register_locked")
    /\ UNCHANGED <<git_changed_paths, session_acknowledged_paths, cache_lock>>

\* acknowledge_project_path: the inserts, and the guard dropped at the end.
RegisterUnlock ==
    /\ pc[Main] = "register_locked"
    /\ session_acknowledged_paths' =
           acknowledge_project_path(fs, project_path, session_acknowledged_paths)
    /\ session_lock' = UnlockWrite(session_lock, Main)
    /\ Step(Main, "diff")
    /\ UNCHANGED <<git_changed_paths, cache_lock>>

\* refresh: self.git_changed_paths.write()
CacheLock(t) ==
    /\ pc[t] = "write_cache"
    /\ CanWrite(cache_lock)
    /\ cache_lock' = LockWrite(cache_lock, t)
    /\ Step(t, "cache_locked")
    /\ UNCHANGED <<git_changed_paths, session_acknowledged_paths, session_lock>>

\* refresh: *cache = git_changed.clone(), and the end of the block.
CacheUnlock(t) ==
    /\ pc[t] = "cache_locked"
    /\ git_changed_paths' = WriteCache(git_changed_paths, git_changed[t])
    /\ cache_lock' = UnlockWrite(cache_lock, t)
    /\ Step(t, "merge")
    /\ UNCHANGED <<session_acknowledged_paths, session_lock>>

\* refresh: self.session_acknowledged_paths.write()
SessionLock(t) ==
    /\ pc[t] = "merge"
    /\ CanWrite(session_lock)
    /\ session_lock' = LockWrite(session_lock, t)
    /\ Step(t, "session_locked")
    /\ UNCHANGED <<git_changed_paths, session_acknowledged_paths, cache_lock>>

\* refresh: the inserts, the end of the block, Ok(()).
SessionUnlock(t) ==
    /\ pc[t] = "session_locked"
    /\ session_acknowledged_paths' =
           MergeSession(session_acknowledged_paths, git_changed[t])
    /\ session_lock' = UnlockWrite(session_lock, t)
    /\ Return(t, RefreshRet("Ok"))
    /\ UNCHANGED <<fs, project_path, git_since, repo_root, git_changed_paths,
                   last_ok, calls, cache_lock>>

\* force_acknowledge: self.session_acknowledged_paths.write()
ForceLock(t) ==
    /\ pc[t] = "force_merge"
    /\ CanWrite(session_lock)
    /\ session_lock' = LockWrite(session_lock, t)
    /\ Step(t, "force_locked")
    /\ UNCHANGED <<git_changed_paths, session_acknowledged_paths, cache_lock>>

\* force_acknowledge: the inserts and the return.
ForceUnlock(t) ==
    /\ pc[t] = "force_locked"
    /\ session_acknowledged_paths' =
           MergeSession(session_acknowledged_paths, acknowledged[t])
    /\ session_lock' = UnlockWrite(session_lock, t)
    /\ Return(t, Returned("force_acknowledge", arg[t], "()"))
    /\ UNCHANGED <<fs, project_path, git_since, repo_root, git_changed_paths,
                   last_ok, calls, cache_lock>>

\* is_acknowledged is called: its first statement waits for the read lock.
IsAcknowledgedCall(t) ==
    /\ CanCall(t)
    /\ calls' = calls + 1
    /\ \E path \in QueryPaths : arg' = [arg EXCEPT ![t] = path]
    /\ pc' = [pc EXCEPT ![t] = "read"]
    /\ ret' = NoRet
    /\ UNCHANGED <<fs, project_path, git_since, repo_root, git_changed_paths,
                   session_acknowledged_paths, git_changed, acknowledged, outs,
                   tainted, last_ok>>
    /\ UNCHANGED locks

\* is_acknowledged: self.session_acknowledged_paths.read()
ReadLock(t) ==
    /\ pc[t] = "read"
    /\ CanRead(session_lock)
    /\ session_lock' = LockRead(session_lock, t)
    /\ Step(t, "read_locked")
    /\ UNCHANGED <<git_changed_paths, session_acknowledged_paths, cache_lock>>

\* is_acknowledged: the answer, and the guard dropped at the return.
ReadUnlock(t) ==
    /\ pc[t] = "read_locked"
    /\ session_lock' = UnlockRead(session_lock, t)
    /\ Return(t, Returned("is_acknowledged", arg[t],
                          IF is_acknowledged_method(
                                 Filter(git_changed_paths, session_acknowledged_paths),
                                 fs, arg[t])
                          THEN "true" ELSE "false"))
    /\ UNCHANGED <<fs, project_path, git_since, repo_root, git_changed_paths,
                   session_acknowledged_paths, last_ok, calls, cache_lock>>

\* The filter is built by GitFilter::new; the files do not change meanwhile.
LockInit ==
    /\ Init
    /\ pc[Main] = "new"

\* The steps of thread t that concern a lock: taking it, or the block under
\* it up to the release.
LockStep(t) ==
    \/ t = Main /\ (RegisterLock \/ RegisterUnlock)
    \/ CacheLock(t) \/ CacheUnlock(t)
    \/ SessionLock(t) \/ SessionUnlock(t)
    \/ ForceLock(t) \/ ForceUnlock(t)
    \/ ReadLock(t) \/ ReadUnlock(t)

LockNext ==
    \/ NewStruct
    \/ RegisterLock
    \/ RegisterUnlock
    \/ \E t \in Threads : RefreshDiff(t)
    \/ \E t \in Threads : RefreshUntracked(t)
    \/ \E t \in Threads : RefreshStaged(t)
    \/ \E t \in Threads : CacheLock(t)
    \/ \E t \in Threads : CacheUnlock(t)
    \/ \E t \in Threads : SessionLock(t)
    \/ \E t \in Threads : SessionUnlock(t)
    \/ \E t \in Workers : ForceAcknowledge(t)
    \/ \E t \in Workers : ForceLock(t)
    \/ \E t \in Workers : ForceUnlock(t)
    \/ \E t \in Workers : IsAcknowledgedCall(t)
    \/ \E t \in Workers : ReadLock(t)
    \/ \E t \in Workers : ReadUnlock(t)
    \/ CreateSession
    \/ StartServer

\* A thread that can take a lock, or is in a block under one, goes on: the
\* scheduler runs every thread and no block under a lock waits for anything.
\* Nothing is assumed of the queries, which may never return.
LockSpec ==
    /\ LockInit
    /\ [][LockNext]_vars
    /\ \A t \in Threads : WF_vars(LockStep(t))

\* ---------------------------------------------------------------------------
\* strip_lua_extension on its own: a file name is drawn, the function is
\* applied to it once, and its result is what the call returns.

\* The pieces file names are made of: the dot, the words of the recognized
\* suffixes, and words that are none of them.
NameTokens == {".", "foo", "init", "txt", "server", "client", "lua", "luau"}

RECURSIVE NamesOfLen(_)
NamesOfLen(n) ==
    IF n = 0 THEN {<<>>}
    ELSE {Append(m, k) : m \in NamesOfLen(n - 1), k \in NameTokens}

\* What a name may end with: a recognized suffix, another extension, nothing.
NameEndings ==
    {EXTENSIONS[i] : i \in 1..Len(EXTENSIONS)} \cup {<<>>, <<".", "txt">>}

\* Any pieces, up to MaxStemLen of them, and then an ending.
FileNames ==
    {stem \o ending : stem \in UNION {NamesOfLen(n) : n \in 0..MaxStemLen},
                      ending \in NameEndings} \ {<<>>}

StripInit ==
    /\ \E file_name \in FileNames :
         arg = [t \in Threads |-> IF t = Main THEN <<file_name>> ELSE Root]
    /\ pc = [t \in Threads |-> IF t = Main THEN "strip" ELSE "idle"]
    /\ fs = {}
    /\ project_path = LinkW
    /\ git_since = None
    /\ repo_root = Root
    /\ git_changed_paths = {}
    /\ session_acknowledged_paths = {}
    /\ git_changed = [t \in Threads |-> {}]
    /\ acknowledged = [t \in Threads |-> {}]
    /\ ret = NoRet
    /\ outs = [t \in Threads |-> <<>>]
    /\ tainted = [t \in Threads |-> FALSE]
    /\ last_ok = NoRefresh
    /\ calls = 0
    /\ cache_lock = FreeLock
    /\ session_lock = FreeLock

StripLuaExtension ==
    /\ pc[Main] = "strip"
    /\ ret' = Returned("strip_lua_extension", arg[Main],
                       strip_lua_extension(FileName(arg[Main])))
    /\ pc' = [pc EXCEPT ![Main] = "stripped"]
    /\ UNCHANGED <<fs, project_path, git_since, repo_root, git_changed_paths,
                   session_acknowledged_paths, git_changed, acknowledged, arg,
                   outs, tainted, last_ok, calls>>
    /\ UNCHANGED locks

StripNext == StripLuaExtension

StripSpec == StripInit /\ [][StripNext]_vars

\* ---------------------------------------------------------------------------
\* The closure of one path, computed by both of its callers: w1 runs a
\* refresh whose queries report that path, w2 runs force_acknowledge on it,
\* over the same files, on a filter whose anchor is registered and whose
\* initial refresh found nothing.

\* How git prints a path of the repository: relative to the root, its
\* components separated by "/".
RECURSIVE DisplayRelative(_)
DisplayRelative(rest) ==
    IF Len(rest) = 1 THEN rest[1]
    ELSE rest[1] \o <<"/">> \o DisplayRelative(Tail(rest))

\* The entries below the root that are reported: scripts, an init script, a
\* metadata file, a project file, a directory, a file that does not exist,
\* a script of the directory beside src.
ClosureEntries ==
    { <<<<"src">>, ALua>>, <<<<"src">>, BLua>>, <<<<"src">>, InitServerLuau>>,
      <<<<"src">>, AMeta>>, <<DefaultProjectJson>>, <<<<"src">>>>,
      <<<<"src">>, Name("gone", LUA)>>, <<<<"pkg">>, MLua>> }

\* The outputs of a query that reports the entry and nothing else.
ReportingOnly(line) ==
    {<<>>, <<line>>, <<line, EmptyLine>>, <<EmptyLine, line>>, <<line, line>>}

\* A line of blanks, as a query prints for an entry named so or as padding.
BlankLine == <<" ">>

\* Outputs with blanks: a line of blanks, alone or after the entry, and the
\* entry with a blank after it or before it.
ReportingWithBlanks(line) ==
    {<<BlankLine>>, <<line, BlankLine>>, <<line \o <<" ">>>>, <<<<" ">> \o line>>}

QueryOutputs(line) == ReportingOnly(line) \cup ReportingWithBlanks(line)

\* The line git prints for the entry p of the repository at root.
RelativeLine(root, p) == DisplayRelative(SubSeq(p, Len(root) + 1, Len(p)))

ClosureInit ==
    /\ fs \in SUBSET MutableFiles
    /\ repo_root \in {LinkW, DirR}
    /\ \E rest \in ClosureEntries : arg = [t \in Threads |-> repo_root \o rest]
    /\ pc = [t \in Threads |-> IF t = "w1" THEN "diff"
                               ELSE IF t = "w2" THEN "force" ELSE "serving"]
    /\ project_path = LinkW
    /\ git_since = "HEAD"
    /\ git_changed_paths = {}
    /\ session_acknowledged_paths = acknowledge_project_path(fs, project_path, {})
    /\ git_changed = [t \in Threads |-> {}]
    /\ acknowledged = [t \in Threads |-> {}]
    /\ ret = NoRet
    /\ outs = [t \in Threads |-> <<>>]
    /\ tainted = [t \in Threads |-> FALSE]
    /\ last_ok = NoRefresh
    /\ calls = 0
    /\ cache_lock = FreeLock
    /\ session_lock = FreeLock

\* A query of the refresh of w1 that succeeds (the staged one may also exit
\* non-zero, which is skipped), and the loop over its lines.
RefreshReporting ==
    /\ pc["w1"] \in {"diff", "untracked", "staged"}
    /\ LET line == RelativeLine(repo_root, arg["w1"])
       IN  \E o \in {ExitZero(lines) : lines \in QueryOutputs(line)}
                    \cup (IF pc["w1"] = "staged" THEN {ExitNonZero} ELSE {}) :
             LET changed == IF o.success
                            THEN AcknowledgeLines(fs, repo_root, o.stdout, git_changed["w1"])
                            ELSE git_changed["w1"]
             IN  Goto("w1", CASE pc["w1"] = "diff" -> "untracked"
                              [] pc["w1"] = "untracked" -> "staged"
                              [] OTHER -> "write_cache",
                      changed, o)
    /\ UNCHANGED <<fs, project_path, git_since, repo_root, git_changed_paths,
                   session_acknowledged_paths, last_ok, calls>>
    /\ UNCHANGED locks

\* force_acknowledge of w2 up to its merge.
ForceClosure ==
    /\ pc["w2"] = "force"
    /\ acknowledged' = [acknowledged EXCEPT !["w2"] = acknowledge_path(fs, arg["w2"], {})]
    /\ pc' = [pc EXCEPT !["w2"] = "force_merge"]
    /\ UNCHANGED <<fs, project_path, git_since, repo_root, git_changed_paths,
                   session_acknowledged_paths, git_changed, arg, ret, outs, tainted,
                   last_ok, calls>>
    /\ UNCHANGED locks

\* The two calls go on to their merges as in the session.
ClosureNext ==
    \/ RefreshReporting
    \/ RefreshWriteCache("w1")
    \/ RefreshMerge("w1")
    \/ ForceClosure
    \/ ForceMerge("w2")

ClosureSpec == ClosureInit /\ [][ClosureNext]_vars

-----------------------------------------------------------------------------
(* The statements checked.                                                 *)

\* The proper prefixes of a path: its ancestor directories up to the root.
ProperPrefixes(p) == {SubSeq(p, 1, k) : k \in 0..(Len(p) - 1)}

\* Some refresh takes a step of its query phase (from its start to the end
\* of the staged query), whether the step fails or goes on.
QueryStep ==
    \/ \E t \in Threads : pc[t] \in {"diff", "untracked", "staged"} /\ pc'[t] # pc[t]
    \/ \E t \in Workers : pc[t] = "idle" /\ pc'[t] = "untracked"
    \/ /\ calls' = calls + 1
       /\ ret' \in {RefreshRet("Failed to execute git diff"),
                    RefreshRet("git diff failed")}

MandatoryQueryErrors ==
    {"Failed to execute git diff", "git diff failed",
     "Failed to execute git ls-files", "git ls-files failed"}

\* Thread t returns from a successful refresh in this step.
RefreshReturnsOk(t) == pc[t] = "merge" /\ pc'[t] # "merge"

\* C1: AcknowledgedSet only grows: every member before a step of any
\* operation, in any interleaving, is a member after it.
C1_AcknowledgedSetMonotonic ==
    [][session_acknowledged_paths \subseteq session_acknowledged_paths']_vars

\* A refresh has returned and the session set holds paths its change set
\* does not: they were kept from earlier.
C1_Witness ==
    /\ Shared /\ calls >= 1
    /\ ret = RefreshRet("Ok")
    /\ ~(session_acknowledged_paths \subseteq git_changed_paths)

\* C2 (as the claim states it): a call of is_acknowledged for a path that
\* follows a call for the same path that returned true, returns true.
C2_StickyForTheCaller ==
    [][(/\ ret.op = "is_acknowledged" /\ ret.val = "true"
        /\ ret'.op = "is_acknowledged" /\ ret'.path = ret.path)
       => ret'.val = "true"]_vars

\* C3: a refresh commits nothing before its queries are done, so one that
\* fails in the diff or in the untracked query (not started, or a non-zero
\* exit) and returns the error leaves ChangeSet and AcknowledgedSet as they
\* were, whatever the queries before the failing one reported.
C3_FailedRefreshCommitsNothing ==
    [][(QueryStep \/ (ret' # ret /\ ret'.val \in MandatoryQueryErrors))
          => UNCHANGED <<git_changed_paths, session_acknowledged_paths>>]_vars

\* A refresh has just failed at the untracked listing, after its diff query
\* succeeded, and a.lua, which that query may report, is not acknowledged.
C3_Witness ==
    /\ Shared
    /\ ret = RefreshRet("git ls-files failed")
    /\ \A p \in session_acknowledged_paths : p # Root => FileName(p) # ALua

\* C4 (as the claim states it): a refresh whose diff and untracked queries
\* succeeded goes on to commit whatever the staged query does, and a staged
\* query that failed adds nothing to what is committed.
C4_StagedFailureTolerated ==
    [][\A t \in Threads :
         (pc[t] = "staged" /\ pc'[t] # pc[t])
             => /\ pc'[t] = "write_cache"
                /\ ~outs'[t][3].success => git_changed'[t] = git_changed[t]]_vars

\* C5: when a refresh returns success, AcknowledgedSet holds the whole
\* change set that this refresh computed, whatever other calls ran meanwhile.
C5_AcknowledgedCoversChangeSet ==
    [][\A t \in Threads :
         RefreshReturnsOk(t) => git_changed[t] \subseteq session_acknowledged_paths']_vars

\* A refresh has returned success while another one is between its two
\* writes, and the cache is not empty.
C5_Witness ==
    /\ ret = RefreshRet("Ok")
    /\ git_changed_paths # {}
    /\ \E t \in Workers : pc[t] = "merge"

\* The anchor is registered: acknowledge_project_path has run (GitFilter::new
\* is past it, whatever its initial refresh then returns).
Registered ==
    /\ git_since # None
    /\ \/ pc[Main] \in {"diff", "untracked", "staged", "write_cache", "merge",
                        "create_session", "live_server", "serving"}
       \/ pc[Main] = "exit_err" /\ ret.op = "refresh"

\* The path is a member as it is spelled or in its canonical form.
InSomeForm(f, session, p) ==
    p \in session \/ CanonicalOrRaw(f, p) \in session

\* C6: in every state after registration the anchor path, its ancestor
\* directories and, for a directory, the default project files inside it are
\* members of AcknowledgedSet (a path counts in either form), and
\* is_acknowledged(anchor) is true.
C6_AnchorPermanent ==
    Registered =>
        /\ InSomeForm(fs, session_acknowledged_paths, project_path)
        /\ \A a \in ProperPrefixes(project_path) :
               InSomeForm(fs, session_acknowledged_paths, a)
        /\ IsDir(fs, project_path) =>
               \A i \in 1..Len(ProjectFileNames) :
                   InSomeForm(fs, session_acknowledged_paths,
                              Append(project_path, ProjectFileNames[i]))
        /\ is_acknowledged(fs, session_acknowledged_paths, project_path)

\* C7: every ancestor directory of every member of AcknowledgedSet is a
\* member (a path counts in either form).
C7_AncestorClosed ==
    \A p \in session_acknowledged_paths :
        \A a \in ProperPrefixes(p) :
            InSomeForm(fs, session_acknowledged_paths, a)

RecognizedExtensions ==
    {<<".", "lua">>, <<".", "luau">>,
     <<".", "server", ".", "lua">>, <<".", "server", ".", "luau">>,
     <<".", "client", ".", "lua">>, <<".", "client", ".", "luau">>}

IsSourceFile(p) ==
    p # Root /\ \E e \in RecognizedExtensions : EndsWith(FileName(p), e)

\* <base>.meta.json for a source file: its name without the longest
\* recognized extension it ends with.
DerivedMetaPath(p) ==
    LET name == FileName(p)
        ends == {e \in RecognizedExtensions : EndsWith(name, e)}
        ext == CHOOSE e \in ends : \A o \in ends : Len(o) <= Len(e)
    IN  Append(Parent(p), SubSeq(name, 1, Len(name) - Len(ext)) \o META_JSON)

NameStartsWithInitDot(p) ==
    Len(FileName(p)) >= 2 /\ SubSeq(FileName(p), 1, 2) = <<"init", ".">>

\* C8: for every source file in AcknowledgedSet, however it got there, the
\* path <base>.meta.json in its directory is a member, and init.meta.json in
\* its directory when its name starts with "init." (a path counts in either
\* form).
C8_MetadataClosed ==
    \A p \in session_acknowledged_paths :
        IsSourceFile(p) =>
            /\ InSomeForm(fs, session_acknowledged_paths, DerivedMetaPath(p))
            /\ NameStartsWithInitDot(p) =>
                   InSomeForm(fs, session_acknowledged_paths,
                              Append(Parent(p), InitMeta))

\* The paths is_acknowledged is asked about in the statements below.
ProbePaths ==
    {LinkW, AliasSrc, Append(AliasSrc, ALua), Append(DirSrc, ALua),
     Append(AliasSrc, CLua), Append(AliasSrc, BMeta),
     Append(LinkW, DefaultProjectJsonc), <<<<"w">>, <<"lib">>>>}

\* The path, as given or in canonical form, is a member or an ancestor of one.
MemberOrAncestor(f, session, p) ==
    \E form \in {p, CanonicalOrRaw(f, p)} :
        \E m \in session : form = m \/ form \in ProperPrefixes(m)

\* Whatever files exist, is_acknowledged answers every probe path by
\* membership or ancestry in the given set.
AnswersExactly(session) ==
    \A f \in SUBSET MutableFiles :
        \A p \in ProbePaths :
            is_acknowledged(f, session, p) <=> MemberOrAncestor(f, session, p)

\* A call of is_acknowledged is made and returns in this step.
IsAcknowledgedReturns ==
    calls' = calls + 1 /\ pc' = pc /\ ret'.op = "is_acknowledged"

\* Scenario A: diff reports src/a.lua, untracked reports src/b.lua (and the
\* init file), staged reports nothing.
ScenarioA ==
    <<ExitZero(<<LineA, EmptyLine>>), ExitZero(<<LineB, LineInit>>), ExitZero(<<>>)>>

\* C9: is_acknowledged(path) is true exactly when the path, as given or in
\* canonical form, is a member of AcknowledgedSet or an ancestor of a member:
\* so a call answers, and so it would answer for every probe path in every
\* state (the answer depends on the filesystem and AcknowledgedSet only, so it
\* is looked at for every filesystem, first and whenever AcknowledgedSet
\* changes); and when a refresh
\* that read Scenario A from an unchanged filesystem returns, it is true for
\* src/a.lua, src/b.lua, src and src/a.meta.json (resolved against the
\* repository root) and false for src/c.lua.
C9_IsAcknowledgedExact ==
    /\ AnswersExactly(session_acknowledged_paths)
    /\ [][/\ session_acknowledged_paths' # session_acknowledged_paths
              => AnswersExactly(session_acknowledged_paths')
          /\ IsAcknowledgedReturns
              => (ret'.val = "true"
                    <=> MemberOrAncestor(fs, session_acknowledged_paths, ret'.path))
          /\ \A t \in Threads :
               (RefreshReturnsOk(t) /\ ~tainted[t] /\ outs[t] = ScenarioA)
                 => /\ \A p \in {Append(AliasSrc, ALua), Append(AliasSrc, BLua),
                                 AliasSrc, Append(AliasSrc, AMeta)} :
                         is_acknowledged(fs', session_acknowledged_paths', p)
                    /\ ~is_acknowledged(fs', session_acknowledged_paths',
                                        Append(AliasSrc, CLua))]_vars

\* After a refresh that read Scenario A, is_acknowledged(src/c.lua) returned
\* false.
C9_Witness ==
    /\ last_ok.valid /\ last_ok.outs = ScenarioA
    /\ ret = Returned("is_acknowledged", Append(AliasSrc, CLua), "false")

\* C10: a successful refresh that read the same three results as the
\* successful refresh before it, with the filesystem unchanged since that one
\* started and no other write to AcknowledgedSet in between, leaves
\* AcknowledgedSet as it was.
C10_RefreshIdempotent ==
    [][\A t \in Threads :
         (RefreshReturnsOk(t) /\ ~tainted[t] /\ last_ok.valid /\ last_ok.outs = outs[t])
             => session_acknowledged_paths' = session_acknowledged_paths]_vars

\* A worker's refresh has returned after reading what the refresh before it
\* had read.
C10_Witness == calls >= 1 /\ last_ok.valid /\ last_ok.repeated

\* The errors refresh returns, and those of the construction as a whole.
RefreshErrors == MandatoryQueryErrors \cup {"Failed to execute git diff --cached"}

ConstructionErrors ==
    RefreshErrors \cup {"Failed to execute git rev-parse",
                        "Failed to find Git repository root"}

\* The serve command is building the filter.
Building == pc[Main] \in {"run", "new", "diff", "untracked", "staged",
                          "write_cache", "merge"}

\* C11: construction is ordered and all-or-nothing. GitFilter::new is entered
\* from run only with the root git resolved; the initial refresh starts only
\* after the anchor is registered; the session is created with a filter only
\* when the initial refresh returns Ok; a step of the construction that
\* returns changes nothing but the caller's position or ends it with an error
\* (for the refresh: one of refresh's own errors), and after an error the
\* command stays ended: no session, no server, no call on a filter.
C11_ConstructionAllOrNothing ==
    [][/\ (pc'[Main] = "new" /\ pc[Main] # "new")
            => (pc[Main] = "run" /\ repo_root' \in RepoRoots)
       /\ (pc'[Main] = "diff" /\ pc[Main] # "diff")
            => /\ pc[Main] = "new"
               /\ InSomeForm(fs, session_acknowledged_paths', project_path)
       /\ (pc'[Main] = "create_session" /\ pc[Main] # "create_session"
              /\ git_since # None)
            => (pc[Main] = "merge" /\ ret' = RefreshRet("Ok"))
       /\ (Building /\ git_since # None /\ ret' # ret)
            => \/ pc'[Main] = "untracked" /\ ret' = NoRet
               \/ pc'[Main] = "create_session" /\ ret' = RefreshRet("Ok")
               \/ /\ pc'[Main] = "exit_err"
                  /\ ret'.val \in ConstructionErrors
                  /\ pc[Main] # "run" => (ret'.op = "refresh"
                                           /\ ret'.val \in RefreshErrors)
       /\ pc[Main] = "exit_err"
            => (pc' = pc /\ ~Shared' /\ calls' = calls
                /\ UNCHANGED <<git_changed_paths, session_acknowledged_paths>>)]_vars

\* The initial refresh has failed after the anchor was registered: the
\* command has ended with refresh's error.
C11_Witness ==
    /\ pc[Main] = "exit_err"
    /\ ret = RefreshRet("git ls-files failed")
    /\ session_acknowledged_paths # {}


\* A refresh of thread t is inside one of its external queries: the query has
\* been started and has not returned.
InQuery(t) == pc[t] \in {"diff", "untracked", "staged"}

\* Thread t has called and waits for a lock.
WaitsForSession(t) == pc[t] \in {"register", "merge", "force_merge", "read"}

WaitsForCache(t) == pc[t] = "write_cache"

\* Thread t is in a block under a lock: its next step is the end of the block.
InBlock(t) ==
    pc[t] \in {"register_locked", "cache_locked", "session_locked", "force_locked",
               "read_locked"}

\* C12: a refresh that is inside an external query holds no lock on either
\* set, however long the query takes. Whatever the queries do (they may never
\* return), a thread that has called is_acknowledged gets the read lock and
\* returns, and a thread that has called force_acknowledge returns; the
\* session set is changed only by the thread that holds its write lock, never
\* by a thread inside a query, so the answer is the one of the set as it was
\* before that refresh.
C12_BlockedRefreshHoldsNoLock ==
    /\ [](\A t \in Threads :
            InQuery(t) => ~Holds(cache_lock, t) /\ ~Holds(session_lock, t))
    /\ [][session_acknowledged_paths' # session_acknowledged_paths
            => \E t \in Threads : /\ session_lock.writer = t
                                  /\ pc'[t] # pc[t]
                                  /\ ~InQuery(t)]_vars
    /\ \A u \in Workers : (pc[u] = "read") ~> (pc[u] = "idle")
    /\ \A u \in Workers : (pc[u] = "force_merge") ~> (pc[u] = "idle")

\* is_acknowledged has returned while the refresh of w1 is still in its first
\* query after the start.
C12_Witness ==
    /\ pc["w1"] = "untracked"
    /\ ret.op = "is_acknowledged"
    /\ session_lock = FreeLock

\* C13: no thread holds the lock of the ChangeSet and the lock of the
\* AcknowledgedSet at once, and no thread waits for a lock forever: whoever
\* holds a lock is in the block under it, which ends without waiting, so a
\* thread that waits can take the lock or its holder can release it.
C13_LockDiscipline ==
    /\ \A t \in Threads : ~(Holds(cache_lock, t) /\ Holds(session_lock, t))
    /\ \A t \in Threads : Holds(cache_lock, t) \/ Holds(session_lock, t) => InBlock(t)
    /\ \A t \in Threads :
         /\ WaitsForCache(t) =>
              \/ CanWrite(cache_lock)
              \/ \E h \in Threads \ {t} : Holds(cache_lock, h) /\ InBlock(h)
         /\ WaitsForSession(t) =>
              \/ IF pc[t] = "read" THEN CanRead(session_lock) ELSE CanWrite(session_lock)
              \/ \E h \in Threads \ {t} : Holds(session_lock, h) /\ InBlock(h)

\* w2 waits for the session set's lock, which w1 holds for its merge, after
\* w1 has released the lock of the cache.
C13_Witness ==
    /\ pc["w1"] = "session_locked"
    /\ session_lock.writer = "w1"
    /\ cache_lock = FreeLock
    /\ WaitsForSession("w2")


\* C14: no update is lost between force_acknowledge(p) and a refresh in
\* progress. When force_acknowledge returns, the session set holds the whole
\* closure it computed for p and everything it held before; when a refresh
\* returns Ok, the session set holds the whole closure that refresh computed
\* and everything it held before; the closure a refresh in progress has
\* collected is not touched by the other thread's merge, and no step of a
\* shared filter takes a path out. So once both have returned, in whatever
\* order their merges came, both closures are in the set.
C14_NoLostUpdate ==
    [][\A t \in Workers :
         /\ (pc[t] = "force_merge" /\ pc'[t] # "force_merge")
              => /\ acknowledged[t] \cup session_acknowledged_paths
                        \subseteq session_acknowledged_paths'
                 /\ \A u \in Workers \ {t} : git_changed'[u] = git_changed[u]
         /\ (pc[t] = "merge" /\ pc'[t] # "merge")
              => /\ ret' = RefreshRet("Ok")
                 /\ git_changed[t] \cup session_acknowledged_paths
                        \subseteq session_acknowledged_paths'
                 /\ \A u \in Workers \ {t} : acknowledged'[u] = acknowledged[u]
         /\ Shared => session_acknowledged_paths \subseteq session_acknowledged_paths']_vars

\* force_acknowledge has merged and returned between the cache write and the
\* merge of the refresh of w1, whose closure is not in the session set yet.
C14_Witness ==
    /\ pc["w1"] = "merge"
    /\ ret.op = "force_acknowledge"
    /\ acknowledge_path(fs, ret.path, {}) \subseteq session_acknowledged_paths
    /\ ~(git_changed["w1"] \subseteq session_acknowledged_paths)


\* The recognized suffixes, by their number of segments.
TwoSegmentSuffixes ==
    {<<".", role, ".", lang>> : role \in {"server", "client"}, lang \in {"lua", "luau"}}

OneSegmentSuffixes == {<<".", lang>> : lang \in {"lua", "luau"}}

HasDot(name) == \E i \in 1..Len(name) : name[i] = "."

\* base is name without the text from its last dot on.
BeforeLastDot(name, base) ==
    \E i \in 1..Len(name) :
        /\ name[i] = "."
        /\ \A j \in (i + 1)..Len(name) : name[j] # "."
        /\ base = SubSeq(name, 1, i - 1)

\* The names of the unit test, in pieces, with what each must give.
StripExamples ==
    { <<Name("foo", <<".", "server", ".", "lua">>), <<"foo">>>>,
      <<Name("foo", <<".", "client", ".", "luau">>), <<"foo">>>>,
      <<Name("foo", <<".", "lua">>), <<"foo">>>>,
      <<Name("init", <<".", "server", ".", "lua">>), <<"init">>>>,
      <<Name("foo", <<".", "txt">>), <<"foo">>>>,
      <<Name("foo", <<>>), <<"foo">>>> }

\* C15: for every file name, strip_lua_extension removes the two-segment
\* suffix (.server.luau, .server.lua, .client.luau, .client.lua) the name
\* ends with; if it ends with none, the one-segment suffix (.luau, .lua) it
\* ends with; if it ends with none of the six, the text from the last dot on;
\* and a name without a dot is returned as it is.
C15_StripPrecedence ==
    ret.op = "strip_lua_extension" =>
        LET name == FileName(ret.path)
            base == ret.val
            two  == {x \in TwoSegmentSuffixes : EndsWith(name, x)}
            one  == {x \in OneSegmentSuffixes : EndsWith(name, x)}
        IN  /\ IF two # {} THEN \E x \in two : base \o x = name
               ELSE IF one # {} THEN \E x \in one : base \o x = name
               ELSE IF HasDot(name) THEN BeforeLastDot(name, base)
               ELSE base = name
            /\ \A e \in StripExamples : name = e[1] => base = e[2]

\* init.server.lua has been stripped to init: the name ends with .lua too.
C15_Witness ==
    /\ ret.op = "strip_lua_extension"
    /\ FileName(ret.path) = Name("init", <<".", "server", ".", "lua">>)
    /\ ret.val = <<"init">>


\* C16: is_acknowledged only reads. Whatever path it is asked about,
\* whatever the state and whatever it answers, the call leaves the ChangeSet
\* and the AcknowledgedSet as they were (and the files, and the locals of the
\* calls in progress).
C16_IsAcknowledgedPureRead ==
    [][IsAcknowledgedReturns
         => /\ ret'.val \in {"true", "false"}
            /\ UNCHANGED <<git_changed_paths, session_acknowledged_paths, fs,
                           git_changed, acknowledged>>]_vars

\* A call has answered true for a path that is not an element of the set as
\* given (its canonical form is), with both sets non-empty.
C16_Witness ==
    /\ ret.op = "is_acknowledged"
    /\ ret.val = "true"
    /\ ret.path \notin session_acknowledged_paths
    /\ git_changed_paths # {}


\* The lines the queries of the refresh of t have printed, the empty ones
\* left out.
PrintedLines(t) ==
    {outs[t][i].stdout[j] : <<i, j>> \in
         {x \in (1..Len(outs[t])) \X (1..3) : x[2] <= Len(outs[t][x[1]].stdout)}}
      \ {EmptyLine}

\* C17: the closure does not depend on the caller. For every path and every
\* state of the files, the set a refresh has collected when its queries
\* reported that path and nothing else (once or several times, with empty
\* lines or without) is the set force_acknowledge collects for that path.
C17_ClosureSameForBothCallers ==
    (pc["w1"] = "write_cache" /\ pc["w2"] = "force_merge")
        => (PrintedLines("w1") = {RelativeLine(repo_root, arg["w2"])}
              => git_changed["w1"] = acknowledged["w2"])

\* Both callers are done with the init script, reported by two queries: the
\* set holds its metadata sibling and init.meta.json.
C17_Witness ==
    /\ pc["w1"] = "write_cache" /\ pc["w2"] = "force_merge"
    /\ Len(outs["w1"]) = 3 /\ outs["w1"][1].stdout # <<>> /\ outs["w1"][3].stdout # <<>>
    /\ PrintedLines("w1") = {RelativeLine(repo_root, arg["w2"])}
    /\ FileName(arg["w2"]) = InitServerLuau
    /\ Append(DirSrc, InitMeta) \in git_changed["w1"]
    /\ Cardinality(acknowledged["w2"]) >= 5


\* C18: when a refresh returns Ok, the ChangeSet is exactly what that
\* refresh collected (the closures of the paths its diff, untracked and, if
\* successful, staged queries reported), with nothing of another refresh;
\* and a write of the ChangeSet puts the whole collection of one refresh
\* there.
C18_ChangeSetOfThisRefresh ==
    [][\A t \in Threads :
         /\ (pc[t] = "merge" /\ pc'[t] # "merge") => git_changed_paths' = git_changed[t]
         /\ (pc[t] = "write_cache" /\ pc'[t] # "write_cache")
              => git_changed_paths' = git_changed[t]]_vars


\* What a refresh has collected if every printed line is trimmed first and a
\* line of blanks is dropped.
CollectedFromTrimmed(t) ==
    UNION {acknowledge_path(fs, Join(repo_root, Trim(line)), {}) :
               line \in {l \in PrintedLines(t) : Trim(l) # <<>>}}

\* What a refresh has collected if every printed line that is not empty is
\* taken as it is written.
CollectedAsWritten(t) ==
    UNION {acknowledge_path(fs, Join(repo_root, line), {}) : line \in PrintedLines(t)}

\* C19 as stated: every non-empty line is trimmed and then resolved against
\* the root, and a line of blanks contributes no path.
C19_LinesTrimmed ==
    pc["w1"] = "write_cache" => git_changed["w1"] = CollectedFromTrimmed("w1")

\* C19, amended: the output is taken line by line; every line that is not
\* empty is resolved against the root as it is written, blanks included, and
\* only the empty lines contribute no path.
C19_LinesAsWritten ==
    pc["w1"] = "write_cache" => git_changed["w1"] = CollectedAsWritten("w1")

\* A query has printed a line of blanks and the refresh has collected the
\* path of that name under the root.
C19_Witness ==
    /\ pc["w1"] = "write_cache"
    /\ BlankLine \in PrintedLines("w1")
    /\ Append(repo_root, BlankLine) \in git_changed["w1"]


\* The paths a consumer that walks the tree asks about: scripts under both
\* spellings of the root, and the directory beside src under the name it has
\* inside src.
WalkedPaths ==
    {Append(AliasSrc, ALua), Append(DirSrc, ALua), Append(DirSrc, BLua),
     Append(DirPkg, MLua), LinkPkg, Append(LinkPkg, MLua),
     Append(AliasSrc, <<"pkg">>)}

\* C20: is_acknowledged is upward-closed. In every state, if it answers true
\* for a path, it answers true for every ancestor directory of that path.
C20_UpwardClosed ==
    \A p \in WalkedPaths :
        is_acknowledged(fs, session_acknowledged_paths, p)
            => \A q \in ProperPrefixes(p) :
                   is_acknowledged(fs, session_acknowledged_paths, q)


\* Other contents the ChangeSet could have, the state being the same
\* otherwise: every set of these paths.
OtherChangeSets ==
    SUBSET {Append(DirSrc, ALua), Append(AliasSrc, ALua), Append(DirSrc, CLua),
            Append(AliasSrc, CLua)}

\* C21: the answer of is_acknowledged does not depend on the ChangeSet. The
\* answer a call gives is the answer it gives for the same AcknowledgedSet,
\* the same files and the same path under every other ChangeSet; and
\* force_acknowledge, from its call to its return, leaves the ChangeSet as
\* it is.
C21_AnswerIgnoresChangeSet ==
    [][/\ IsAcknowledgedReturns
            => \A cache \in OtherChangeSets :
                   (ret'.val = "true") <=>
                       is_acknowledged_method(
                           Filter(cache, session_acknowledged_paths), fs, ret'.path)
       /\ \A t \in Workers :
            (pc[t] # pc'[t] /\ "force_merge" \in {pc[t], pc'[t]})
                => UNCHANGED git_changed_paths]_vars

\* A call has answered false for a path whose canonical form is in the
\* ChangeSet: a refresh has written the cache and has not merged yet.
C21_Witness ==
    /\ ret.op = "is_acknowledged"
    /\ ret.val = "false"
    /\ CanonicalOrRaw(fs, ret.path) \in git_changed_paths
    /\ \E t \in Workers : pc[t] = "merge"

=============================================================================
